---- MODULE Spec2Model ----
(***************************************************************************)
(* Model of discover_skiløyper.py: a ski-trail network is cut into         *)
(* segments (segmenter_løype), every segment is tested against the points  *)
(* of a GPX track (sjekk_segment_besøkt) and the visited and total lengths *)
(* are summed up (prosesser_løyper).                                       *)
(*                                                                         *)
(* Geometry.  A position is <<lon, lat>> on an integer grid whose pitch    *)
(* is one tick = 1/TicksPerGrad degree.  Every polyline of the model is    *)
(* rectilinear (each edge runs along one axis), so that planar lengths,    *)
(* interpolated points and point-to-line distances are exact integers.     *)
(* Floating point is modelled by integer arithmetic: a quotient the code   *)
(* rounds to the nearest double is rounded down to the tick (or metre)     *)
(* here, and the final divisions of the statistics are kept as exact       *)
(* fractions <<numerator, denominator>>.                                   *)
(*                                                                         *)
(* Identifiers keep the names of the source, with ø written o.             *)
(***************************************************************************)
EXTENDS Integers, Sequences, FiniteSets, TLC

(***************************************************************************)
(* Bounds of the model.                                                    *)
(***************************************************************************)
\* largest number of trails in a network
MaxTrails == 2
\* largest number of free positions in a track
MaxTrack == 1

(***************************************************************************)
(* Constants of the program and the units derived from them.               *)
(***************************************************************************)
\* haversine: R = 6371000, the earth's radius in metres
R == 6371000
\* sjekk_segment_besøkt: 1 degree is taken as 111000 metres
MeterPerGrad == 111000
\* prosesser_løyper calls segmenter_løype(linestring, segment_lengde=100)
SegmentLengde == 100
\* prosesser_løyper calls sjekk_segment_besøkt(..., buffer_meter=50)
BufferMeter == 50
\* total_km = total_lengde_meter / 1000
MeterPerKm == 1000
\* discovery_prosent = besøkt / total * 100
Prosent == 100

\* the grid: ticks per degree, hence 10 nominal metres (at 111000 m per
\* degree) to the tick
TicksPerGrad == 111 * 100
MeterPerTick == MeterPerGrad \div TicksPerGrad
\* metres of great circle per degree of latitude, R * pi / 180 with pi taken
\* as 3.142, and per tick of latitude (10) and of longitude at 60 degrees
\* north, where cos(lat) = 1/2 (5)
HavMeterPerGrad == ((R \div 1000) * 3142) \div 180
LatMeterPerTick == HavMeterPerGrad \div TicksPerGrad
LonMeterPerTick == LatMeterPerTick \div 2

Abs(x) == IF x < 0 THEN -x ELSE x

Sgn(x) == IF x < 0 THEN -1 ELSE IF x > 0 THEN 1 ELSE 0

Max(a, b) == IF a >= b THEN a ELSE b

Min(a, b) == IF a <= b THEN a ELSE b

(***************************************************************************)
(* beregn_linje_lengde: the haversine length of a coordinate list, metres. *)
(***************************************************************************)
\* great-circle distance of two positions that share a longitude or a
\* latitude, near 60 degrees north
haversine(p, q) ==
    LonMeterPerTick * Abs(q[1] - p[1]) + LatMeterPerTick * Abs(q[2] - p[2])

RECURSIVE SumHaversine(_, _)
\* total += haversine(coords[k], coords[k + 1]) for k from k to the end
SumHaversine(coords, k) ==
    IF k >= Len(coords) THEN 0
    ELSE haversine(coords[k], coords[k + 1]) + SumHaversine(coords, k + 1)

beregn_linje_lengde(coords) == SumHaversine(coords, 1)

(***************************************************************************)
(* shapely: LineString.length, LineString.interpolate and ops.substring,   *)
(* all planar and in ticks, as segmenter_løype uses them.                  *)
(***************************************************************************)
\* planar length of one edge (rectilinear)
EdgeLength(p, q) == Abs(q[1] - p[1]) + Abs(q[2] - p[2])

RECURSIVE CumLength(_, _)
\* planar distance along the line from its start to vertex k
CumLength(coords, k) ==
    IF k <= 1 THEN 0
    ELSE CumLength(coords, k - 1) + EdgeLength(coords[k - 1], coords[k])

geom_length(coords) == CumLength(coords, Len(coords))

RECURSIVE InterpolateFrom(_, _, _)
\* the point at planar distance d from vertex k, clamped to the line's end
InterpolateFrom(coords, k, d) ==
    IF k >= Len(coords) THEN coords[Len(coords)]
    ELSE LET p == coords[k]
             q == coords[k + 1]
             e == EdgeLength(p, q)
         IN  IF d <= e
             THEN <<p[1] + Sgn(q[1] - p[1]) * d, p[2] + Sgn(q[2] - p[2]) * d>>
             ELSE InterpolateFrom(coords, k + 1, d - e)

\* LineString.interpolate(d): a negative distance is measured back from the
\* end of the line; a distance beyond either end is clamped to it
interpolate(coords, d) ==
    InterpolateFrom(coords, 1,
                    IF d < 0 THEN Max(0, geom_length(coords) + d) ELSE d)

RECURSIVE InnerVertices(_, _, _, _)
\* substring's loop over the edges (p1, p2): p1 is kept when the distance
\* walked so far lies strictly between start_dist and end_dist
InnerVertices(coords, k, start_dist, end_dist) ==
    IF k >= Len(coords) THEN << >>
    ELSE LET current_distance == CumLength(coords, k)
         IN  IF current_distance >= end_dist THEN << >>
             ELSE (IF start_dist < current_distance
                   THEN <<coords[k]>> ELSE << >>)
                  \o InnerVertices(coords, k + 1, start_dist, end_dist)

\* the sequence backwards
Reverse(seq) == [k \in 1..Len(seq) |-> seq[Len(seq) + 1 - k]]

\* a Point result of substring: geom.interpolate(d) as it is, the empty point
\* for a line without positions
PointAt(coords, d) ==
    [raised |-> FALSE, type |-> "Point",
     coords |-> IF Len(coords) = 0 THEN << >>
                ELSE <<interpolate(coords, d)>>]

\* mutant: substring rejects a start beyond the end and fractions outside
\* [0, 1]
substring_Streng(coords, start_num, end_num, den) ==
    IF \/ Len(coords) = 0
       \/ end_num < start_num
       \/ start_num < 0 \/ start_num > den
       \/ end_num < 0 \/ end_num > den
    THEN [raised |-> TRUE, type |-> "", coords |-> << >>]
    ELSE [raised |-> FALSE, type |-> "LineString",
          coords |-> <<interpolate(coords,
                                   (start_num * geom_length(coords)) \div den)>>
                     \o InnerVertices(coords, 1,
                            (start_num * geom_length(coords)) \div den,
                            (end_num * geom_length(coords)) \div den)
                     \o <<interpolate(coords,
                                      (end_num * geom_length(coords)) \div den)>>]

\* substring(linestring, start_num/den, end_num/den, normalized=True).
\* Equal fractions, and fractions both beyond the same end, give a Point.
\* A negative fraction counts back from the end, a fraction beyond an end is
\* clamped, and a start beyond the end gives the portion reversed.  Nothing
\* is raised for any fractions; but on a line without positions the two
\* interpolated points are empty, and reading the x of an empty point raises.
substring(coords, start_num, end_num, den) ==
    LET L == geom_length(coords)
        start_dist == (start_num * L) \div den
        end_dist == (end_num * L) \div den
        s0 == IF start_dist < 0 THEN L + start_dist ELSE start_dist
        e0 == IF end_dist < 0 THEN L + end_dist ELSE end_dist
        reverse == s0 > e0
        lo == Max(0, IF reverse THEN e0 ELSE s0)
        hi == IF reverse THEN s0 ELSE e0
        start_point == interpolate(coords, start_dist)
        end_point == interpolate(coords, end_dist)
    IN  IF start_num = end_num THEN PointAt(coords, start_dist)
        ELSE IF start_num >= den /\ end_num >= den THEN PointAt(coords, L)
        ELSE IF -start_num >= den /\ -end_num >= den THEN PointAt(coords, 0)
        ELSE IF start_dist < 0 /\ 0 < end_dist /\ Abs(start_dist) + end_dist = L
             THEN PointAt(coords, end_dist)
        ELSE IF end_dist < 0 /\ 0 < start_dist /\ Abs(end_dist) + start_dist = L
             THEN PointAt(coords, start_dist)
        ELSE IF Len(coords) = 0
             THEN [raised |-> TRUE, type |-> "", coords |-> << >>]
        ELSE IF reverse
             THEN [raised |-> FALSE, type |-> "LineString",
                   coords |-> Reverse(<<end_point>>
                                      \o InnerVertices(coords, 1, lo, hi)
                                      \o <<start_point>>)]
        ELSE [raised |-> FALSE, type |-> "LineString",
              coords |-> <<start_point>>
                         \o InnerVertices(coords, 1, lo, hi)
                         \o <<end_point>>]

(***************************************************************************)
(* segmenter_løype                                                         *)
(***************************************************************************)
\* mutant: the quotient rounded up instead of down
AntallSegmenter_RundOpp(coords, lengde) ==
    Max(1, (beregn_linje_lengde(coords) + lengde - 1) \div lengde)

\* mutant: without the max(1, ...)
AntallSegmenter_UtenMax(coords, lengde) ==
    beregn_linje_lengde(coords) \div lengde

\* antall_segmenter = max(1, int(total_lengde / segment_lengde))
AntallSegmenter(coords, lengde) ==
    Max(1, beregn_linje_lengde(coords) \div lengde)

\* mutant: the fractions are taken over one slice more than are cut
SliceStep_FeilNevner(segs, coords, k, antall) ==
    LET r == substring(coords, k, k + 1, antall + 1)
    IN  IF r.raised THEN segs
        ELSE Append(segs, [coords |-> r.coords, idx |-> k])

\* mutant: a slice that raises leaves a segment without extent in the list
SliceStep_Beholder(segs, coords, k, antall) ==
    LET r == substring(coords, k, k + 1, antall)
    IN  Append(segs, [coords |-> IF r.raised THEN << <<0, 0>>, <<0, 0>> >>
                                 ELSE r.coords,
                      idx |-> k])

\* one pass of the loop body for index k: the slice is appended, or dropped
\* when substring raises
SliceStep(segs, coords, k, antall) ==
    LET r == substring(coords, k, k + 1, antall)
    IN  IF r.raised THEN segs
        ELSE Append(segs, [coords |-> r.coords, idx |-> k])

RECURSIVE SliceLoop(_, _, _, _)
SliceLoop(segs, coords, k, antall) ==
    IF k >= antall THEN segs
    ELSE SliceLoop(SliceStep(segs, coords, k, antall), coords, k + 1, antall)

\* the whole call: the list of slices, each with the index it was cut at
segmenter_loype(coords, lengde) ==
    SliceLoop(<< >>, coords, 0, AntallSegmenter(coords, lengde))

(***************************************************************************)
(* sjekk_segment_besøkt                                                    *)
(***************************************************************************)
Clamp(x, a, b) == Max(Min(a, b), Min(x, Max(a, b)))

\* squared planar distance from a point to one (rectilinear) edge
EdgeDist2(pt, p, q) ==
    LET cx == Clamp(pt[1], p[1], q[1])
        cy == Clamp(pt[2], p[2], q[2])
    IN  (pt[1] - cx) * (pt[1] - cx) + (pt[2] - cy) * (pt[2] - cy)

RECURSIVE LineDist2(_, _, _)
\* squared planar distance from a point to the line from edge k on
LineDist2(pt, coords, k) ==
    IF k + 1 >= Len(coords) THEN EdgeDist2(pt, coords[k], coords[k + 1])
    ELSE Min(EdgeDist2(pt, coords[k], coords[k + 1]),
             LineDist2(pt, coords, k + 1))

\* mutant: the boundary of the buffer counts as inside
buffer_contains_Lukket(coords, buffer, pt) ==
    LineDist2(pt, coords, 1) * MeterPerTick * MeterPerTick <= buffer * buffer

\* segment.buffer(buffer_meter / 111000).contains(Point(lon, lat)): the point
\* is in the interior of the buffer, nearer to the line than the radius (the
\* buffer of radius 0 is empty).  The radius is buffer_meter / MeterPerTick
\* ticks; the comparison is made on the squares, in metres.
buffer_contains(coords, buffer, pt) ==
    LineDist2(pt, coords, 1) * MeterPerTick * MeterPerTick < buffer * buffer

RECURSIVE BesoktFra(_, _, _, _)
\* the loop over gpx_punkter from index k: True at the first point inside
BesoktFra(coords, gpx, buffer, k) ==
    IF k > Len(gpx) THEN FALSE
    ELSE IF buffer_contains(coords, buffer, gpx[k]) THEN TRUE
    ELSE BesoktFra(coords, gpx, buffer, k + 1)

\* mutant: every point of the track has to be inside the buffer
sjekk_segment_besokt_Alle(coords, gpx, buffer) ==
    /\ Len(gpx) > 0
    /\ \A k \in 1..Len(gpx) : buffer_contains(coords, buffer, gpx[k])

\* mutant: only the first point of the track is looked at
sjekk_segment_besokt_Forste(coords, gpx, buffer) ==
    Len(gpx) > 0 /\ buffer_contains(coords, buffer, gpx[1])

\* mutant: True when the loop finds nothing to look at
sjekk_segment_besokt_TomSant(coords, gpx, buffer) ==
    Len(gpx) = 0 \/ BesoktFra(coords, gpx, buffer, 1)

sjekk_segment_besokt(coords, gpx, buffer) == BesoktFra(coords, gpx, buffer, 1)

(***************************************************************************)
(* The inputs the model draws: trails, networks and tracks.                *)
(***************************************************************************)
\* the trail records: one without a geometry, and the geometries of no
\* position, one position, shorter than a segment,
\* a straight line of three segments with two vertices, an angle whose
\* slices do not fall on whole ticks, a line with a vertex every buffer
\* radius, and a line of length zero
Loyper ==
    { [coords |-> << >>, properties |-> "uten_geometry",
       har_geometry |-> FALSE],
      [coords |-> << >>, properties |-> "tom", har_geometry |-> TRUE],
      [coords |-> << <<0, 0>> >>, properties |-> "punkt",
       har_geometry |-> TRUE],
      [coords |-> << <<0, 0>>, <<0, 4>> >>, properties |-> "kort",
       har_geometry |-> TRUE],
      [coords |-> << <<0, 0>>, <<60, 0>> >>, properties |-> "lang",
       har_geometry |-> TRUE],
      [coords |-> << <<0, 0>>, <<40, 0>>, <<40, 10>> >>,
       properties |-> "vinkel", har_geometry |-> TRUE],
      [coords |-> << <<0, 0>>, <<0, 5>>, <<0, 10>>, <<0, 15>>, <<0, 20>> >>,
       properties |-> "tett", har_geometry |-> TRUE],
      [coords |-> << <<3, 3>>, <<3, 3>> >>, properties |-> "null",
       har_geometry |-> TRUE] }

\* feature['geometry']['coordinates'] raises for a feature without a
\* geometry, LineString(coords) for a single position; nothing catches either
LesFeil(feature) == ~feature.har_geometry \/ Len(feature.coords) = 1

\* sequences over S of length 0..n
SeqUpTo(S, n) == UNION { [1..k -> S] : k \in 0..n }

Nettverk == SeqUpTo(Loyper, MaxTrails)

\* free track positions: a trail vertex, a point 40 m from the middle of
\* "lang", one exactly a buffer radius from it, one exactly a buffer radius
\* from its end, and one 20 m from "lang" and exactly a buffer radius from
\* "tett"
Punkter == { <<0, 0>>, <<30, 4>>, <<30, 5>>, <<63, 4>>, <<5, 2>> }

\* a track is a list of free positions, or the vertices of one trail
Spor == SeqUpTo(Punkter, MaxTrack) \cup { l.coords : l \in Loyper }

\* the lines segmenter_løype can be handed: LineString(coords) exists for
\* every coordinate list but one of a single position
LineStrings == { l.coords : l \in { m \in Loyper : ~LesFeil(m) } }

\* target lengths of a direct call of segmenter_løype, in metres
SegmentLengder == { 25, 50, SegmentLengde, 1000 }

(***************************************************************************)
(* The state: prosesser_løyper's inputs, locals and result, and the locals *)
(* of the segmenter_løype call it is in.                                   *)
(***************************************************************************)
VARIABLES
    pc,                   \* where the program is
    features,             \* skiløyper_data['features']
    gpx_punkter,          \* the track
    segment_lengde,       \* segmenter_løype's target length
    fi,                   \* index of the feature the outer loop is at
    linestring,           \* segmenter_løype: the line being cut
    antall_segmenter,     \* segmenter_løype: the number of slices
    i,                    \* segmenter_løype: the loop index
    requests,             \* the substring calls made so far (observation)
    segmenter,            \* segmenter_løype: the slices so far; its result
    si,                   \* index of the segment the inner loop is at
    alle_segmenter,       \* the classified segments
    total_lengde_meter,
    besokt_lengde_meter,
    stats,                \* the returned statistics
    buffer_meter,         \* sjekk_segment_besøkt's buffer_meter
    besokt_retur,         \* what sjekk_segment_besøkt returned
    forrige,              \* the result of the call before (observation)
    merge                 \* hent_skiløyper_osm.main: the locals of the merge

vars == <<pc, features, gpx_punkter, segment_lengde, fi, linestring,
          antall_segmenter, i, requests, segmenter, si, alle_segmenter,
          total_lengde_meter, besokt_lengde_meter, stats, buffer_meter,
          besokt_retur, forrige, merge>>

IngenStats == [total_km |-> <<0, 1>>, besokt_km |-> <<0, 1>>,
               discovery_prosent |-> <<0, 1>>]

\* no call before this one
IngenForrige ==
    [kall |-> 0, raised |-> FALSE, segmenter |-> << >>, stats |-> IngenStats]

\* the merge has not begun
IngenMerge ==
    [pc |-> "start", features |-> << >>, new_features |-> << >>,
     existing_ids |-> {}, new_count |-> 0, duplicate_count |-> 0,
     k |-> 1, lagret |-> << >>, runde |-> 0]

Init ==
    /\ pc = "start"
    /\ features = << >>
    /\ gpx_punkter = << >>
    /\ segment_lengde = SegmentLengde
    /\ fi = 1
    /\ linestring = << >>
    /\ antall_segmenter = 0
    /\ i = 0
    /\ requests = << >>
    /\ segmenter = << >>
    /\ si = 1
    /\ alle_segmenter = << >>
    /\ total_lengde_meter = 0
    /\ besokt_lengde_meter = 0
    /\ stats = IngenStats
    /\ buffer_meter = BufferMeter
    /\ besokt_retur = FALSE
    /\ forrige = IngenForrige
    /\ merge = IngenMerge

(***************************************************************************)
(* prosesser_løyper                                                        *)
(***************************************************************************)
\* the network and the track are read; the accumulators start empty
Les ==
    /\ pc = "start"
    /\ \E f \in Nettverk, g \in Spor :
           /\ features' = f
           /\ gpx_punkter' = g
    /\ alle_segmenter' = << >>
    /\ total_lengde_meter' = 0
    /\ besokt_lengde_meter' = 0
    /\ fi' = 1
    /\ pc' = "loyper"
    /\ UNCHANGED <<buffer_meter, besokt_retur, forrige, merge>>
    /\ UNCHANGED <<segment_lengde, linestring, antall_segmenter, i, requests,
                   segmenter, si, stats>>

\* for feature in features: reading the coordinates of a feature without a
\* geometry raises, LineString(coords) raises for a single position, and
\* nothing catches either; otherwise segmenter_løype is entered
NesteLoype ==
    /\ pc = "loyper"
    /\ fi <= Len(features)
    /\ LET coords == features[fi].coords
       IN  IF LesFeil(features[fi])
           THEN /\ pc' = "raised"
                /\ UNCHANGED <<linestring, antall_segmenter, i, requests,
                               segmenter>>
           ELSE /\ pc' = "slices"
                /\ linestring' = coords
                /\ antall_segmenter' = AntallSegmenter(coords, segment_lengde)
                /\ i' = 0
                /\ requests' = << >>
                /\ segmenter' = << >>
    /\ UNCHANGED <<buffer_meter, besokt_retur, forrige, merge>>
    /\ UNCHANGED <<features, gpx_punkter, segment_lengde, fi, si,
                   alle_segmenter, total_lengde_meter, besokt_lengde_meter,
                   stats>>

\* segmenter_løype, one pass of "for i in range(antall_segmenter)"
Slice ==
    /\ pc = "slices"
    /\ i < antall_segmenter
    /\ requests' = Append(requests, <<i, i + 1, antall_segmenter>>)
    /\ segmenter' = SliceStep(segmenter, linestring, i, antall_segmenter)
    /\ i' = i + 1
    /\ UNCHANGED <<buffer_meter, besokt_retur, forrige, merge>>
    /\ UNCHANGED <<pc, features, gpx_punkter, segment_lengde, fi, linestring,
                   antall_segmenter, si, alle_segmenter, total_lengde_meter,
                   besokt_lengde_meter, stats>>

\* segmenter_løype returns segmenter
SegmenterRetur ==
    /\ pc = "slices"
    /\ i >= antall_segmenter
    /\ pc' = "segmenter"
    /\ si' = 1
    /\ UNCHANGED <<buffer_meter, besokt_retur, forrige, merge>>
    /\ UNCHANGED <<features, gpx_punkter, segment_lengde, fi, linestring,
                   antall_segmenter, i, requests, segmenter, alle_segmenter,
                   total_lengde_meter, besokt_lengde_meter, stats>>

\* the record appended for one segment
SegmentRecord(seg, besokt, lengde, feature, at) ==
    [geometry |-> seg.coords, besokt |-> besokt, lengde |-> lengde,
     properties |-> feature.properties, fra |-> <<at, seg.idx>>]

\* mutant: the record is put at the head of the list
LeggTil_Forst(alle, rec) == <<rec>> \o alle

\* alle_segmenter.append(...)
LeggTil(alle, rec) == Append(alle, rec)

\* mutant: the length is not added to the total
NyTotal_Uendret(total, lengde) == total

\* total_lengde_meter += segment_lengde
NyTotal(total, lengde) == total + lengde

\* mutant: the length is added whether visited or not
NyBesokt_Alltid(sum, besokt, lengde) == sum + lengde

\* if besøkt: besøkt_lengde_meter += segment_lengde
NyBesokt(sum, besokt, lengde) == IF besokt THEN sum + lengde ELSE sum

\* the body of "for segment in segmenter" on the accumulators
SegmentPass(acc, seg, feature, at, gpx) ==
    LET lengde == beregn_linje_lengde(seg.coords)
        besokt == sjekk_segment_besokt(seg.coords, gpx, BufferMeter)
    IN  [acc EXCEPT
            !.total = NyTotal(acc.total, lengde),
            !.besokt = NyBesokt(acc.besokt, besokt, lengde),
            !.alle = LeggTil(acc.alle,
                             SegmentRecord(seg, besokt, lengde, feature, at))]

\* one pass of "for segment in segmenter"
ProsesserSegment ==
    /\ pc = "segmenter"
    /\ si <= Len(segmenter)
    /\ LET acc == SegmentPass([alle |-> alle_segmenter,
                               total |-> total_lengde_meter,
                               besokt |-> besokt_lengde_meter,
                               raised |-> FALSE],
                              segmenter[si], features[fi], fi, gpx_punkter)
       IN  /\ total_lengde_meter' = acc.total
           /\ besokt_lengde_meter' = acc.besokt
           /\ alle_segmenter' = acc.alle
    /\ si' = si + 1
    /\ UNCHANGED <<buffer_meter, besokt_retur, forrige, merge>>
    /\ UNCHANGED <<pc, features, gpx_punkter, segment_lengde, fi, linestring,
                   antall_segmenter, i, requests, segmenter, stats>>

\* the inner loop is through: on to the next feature
LoypeFerdig ==
    /\ pc = "segmenter"
    /\ si > Len(segmenter)
    /\ fi' = fi + 1
    /\ pc' = "loyper"
    /\ UNCHANGED <<buffer_meter, besokt_retur, forrige, merge>>
    /\ UNCHANGED <<features, gpx_punkter, segment_lengde, linestring,
                   antall_segmenter, i, requests, segmenter, si,
                   alle_segmenter, total_lengde_meter, besokt_lengde_meter,
                   stats>>

\* mutant: the division without the guard
discovery_prosent_UtenVakt(besokt, total) == <<besokt * Prosent, total>>

\* (besøkt / total * 100) if total > 0 else 0, as a fraction; a denominator
\* of 0 stands for the ZeroDivisionError of a division by zero
discovery_prosent(besokt, total) ==
    IF total > 0 THEN <<besokt * Prosent, total>> ELSE <<0, 1>>

\* the statistics of the returned dictionary
Stats(besokt, total) ==
    [total_km |-> <<total, MeterPerKm>>,
     besokt_km |-> <<besokt, MeterPerKm>>,
     discovery_prosent |-> discovery_prosent(besokt, total)]

\* the outer loop is through: the statistics are computed and returned
Ferdig ==
    /\ pc = "loyper"
    /\ fi > Len(features)
    /\ LET s == Stats(besokt_lengde_meter, total_lengde_meter)
       IN  IF s.discovery_prosent[2] = 0
           THEN /\ pc' = "raised"
                /\ UNCHANGED stats
           ELSE /\ pc' = "done"
                /\ stats' = s
    /\ UNCHANGED <<buffer_meter, besokt_retur, forrige, merge>>
    /\ UNCHANGED <<features, gpx_punkter, segment_lengde, fi, linestring,
                   antall_segmenter, i, requests, segmenter, si,
                   alle_segmenter, total_lengde_meter, besokt_lengde_meter>>

(***************************************************************************)
(* prosesser_løyper as a function of its inputs: the same loops, run to    *)
(* the end.  It gives the result of a call on other inputs than the ones   *)
(* the state holds.                                                        *)
(***************************************************************************)
RECURSIVE SegmentLoop(_, _, _, _, _, _)
SegmentLoop(acc, segs, k, feature, at, gpx) ==
    IF k > Len(segs) THEN acc
    ELSE SegmentLoop(SegmentPass(acc, segs[k], feature, at, gpx),
                     segs, k + 1, feature, at, gpx)

RECURSIVE LoypeLoop(_, _, _, _)
LoypeLoop(acc, fs, k, gpx) ==
    IF k > Len(fs) THEN acc
    ELSE IF LesFeil(fs[k]) THEN [acc EXCEPT !.raised = TRUE]
    ELSE LoypeLoop(SegmentLoop(acc,
                               segmenter_loype(fs[k].coords, SegmentLengde),
                               1, fs[k], k, gpx),
                   fs, k + 1, gpx)

prosesser_loyper(fs, gpx) ==
    LET acc == LoypeLoop([alle |-> << >>, total |-> 0, besokt |-> 0,
                          raised |-> FALSE], fs, 1, gpx)
        s == Stats(acc.besokt, acc.total)
    IN  [raised |-> acc.raised \/ s.discovery_prosent[2] = 0,
         segmenter |-> acc.alle,
         total |-> acc.total,
         besokt |-> acc.besokt,
         stats |-> s]

Next ==
    \/ Les
    \/ NesteLoype
    \/ Slice
    \/ SegmenterRetur
    \/ ProsesserSegment
    \/ LoypeFerdig
    \/ Ferdig

Spec == Init /\ [][Next]_vars

(***************************************************************************)
(* segmenter_løype called on its own, with any line and target length.     *)
(***************************************************************************)
SegmenterKall ==
    /\ pc = "start"
    /\ \E l \in LineStrings, m \in SegmentLengder :
           /\ linestring' = l
           /\ segment_lengde' = m
           /\ antall_segmenter' = AntallSegmenter(l, m)
    /\ i' = 0
    /\ requests' = << >>
    /\ segmenter' = << >>
    /\ pc' = "slices"
    /\ UNCHANGED <<buffer_meter, besokt_retur, forrige, merge>>
    /\ UNCHANGED <<features, gpx_punkter, fi, si, alle_segmenter,
                   total_lengde_meter, besokt_lengde_meter, stats>>

NextSegmenter ==
    \/ SegmenterKall
    \/ Slice
    \/ SegmenterRetur

SpecSegmenter == Init /\ [][NextSegmenter]_vars

(***************************************************************************)
(* The stepwise run and the function agree.                                *)
(***************************************************************************)
RunIsFunction ==
    /\ pc = "done" =>
           prosesser_loyper(features, gpx_punkter) =
               [raised |-> FALSE, segmenter |-> alle_segmenter,
                total |-> total_lengde_meter, besokt |-> besokt_lengde_meter,
                stats |-> stats]
    /\ pc = "raised" => prosesser_loyper(features, gpx_punkter).raised

(***************************************************************************)
(* Claims about segmenter_løype, checked under SpecSegmenter.              *)
(***************************************************************************)
\* the requests of a finished call, as the claim has them
ForventetRequests(antall) == [k \in 1..antall |-> <<k - 1, k, antall>>]

\* C1: for any line and any positive target length, segmenter_løype takes
\* count = max(1, floor(length / target)) and asks substring for exactly
\* count slices, slice i from fraction i/count to (i+1)/count, for
\* i = 0 .. count-1 in increasing order; each slice it gets starts and ends
\* at the points of the line at those fractions of its planar length.
C1_CountAndSlices ==
    pc = "segmenter" =>
        LET total == beregn_linje_lengde(linestring)
            n == antall_segmenter
        IN  /\ n >= 1
            /\ total < segment_lengde => n = 1
            /\ total >= segment_lengde =>
                   n * segment_lengde <= total /\ total < (n + 1) * segment_lengde
            /\ requests = ForventetRequests(n)
            /\ \A k \in 1..Len(segmenter) :
                   LET seg == segmenter[k]
                       L == geom_length(linestring)
                   IN  /\ seg.coords[1] =
                              interpolate(linestring, (seg.idx * L) \div n)
                       /\ seg.coords[Len(seg.coords)] =
                              interpolate(linestring, ((seg.idx + 1) * L) \div n)

\* a call that cut a line into three or more slices, with a target length
\* other than the default
C1_Witness ==
    /\ pc = "segmenter"
    /\ antall_segmenter >= 3
    /\ Len(segmenter) = antall_segmenter
    /\ Len(requests) = antall_segmenter
    /\ segment_lengde # SegmentLengde

\* C4 as claimed: segmenter_løype returns at least one segment for every
\* line and target length, also when slices fail and are dropped.
C4_AlwaysOneSegment == pc = "segmenter" => Len(segmenter) >= 1

\* C4, amended: for every line of at least 2 positions and every positive
\* target length, also one longer than the line, segmenter_løype returns at
\* least one segment, and no slice of such a line is dropped; the single
\* slice of a line without positions fails and nothing is returned for it.
C4_OneSegmentForLines ==
    pc = "segmenter" =>
        /\ Len(linestring) >= 2 =>
               Len(segmenter) >= 1 /\ Len(segmenter) = antall_segmenter
        /\ Len(linestring) = 0 => segmenter = << >>

\* a line shorter than the target length has come back as one segment
C4_Witness ==
    /\ pc = "segmenter"
    /\ Len(linestring) >= 2
    /\ beregn_linje_lengde(linestring) > 0
    /\ beregn_linje_lengde(linestring) < segment_lengde
    /\ Len(segmenter) = 1

(***************************************************************************)
(* Claims about prosesser_løyper, checked under Spec.                      *)
(***************************************************************************)
RECURSIVE SumLengde(_, _, _)
\* the haversine lengths of the geometries of segs[k..], all of them or
\* only those classified visited
SumLengde(segs, k, only_besokt) ==
    IF k > Len(segs) THEN 0
    ELSE (IF only_besokt /\ ~segs[k].besokt THEN 0
          ELSE beregn_linje_lengde(segs[k].geometry))
         + SumLengde(segs, k + 1, only_besokt)

\* a fraction <<n, d>> equals a / b
FracEq(f, a, b) == f[2] # 0 /\ b # 0 /\ f[1] * b = a * f[2]

\* C2: when all trails are processed, total_length is the sum of the lengths
\* of all produced segments, visited_length the sum of the lengths of exactly
\* the segments classified visited, and the ratio is visited / total when
\* total > 0 and 0 otherwise; discovery_prosent is the ratio times 100 and
\* the km figures are the lengths divided by 1000.
C2_Totals ==
    pc = "done" =>
        /\ total_lengde_meter = SumLengde(alle_segmenter, 1, FALSE)
        /\ besokt_lengde_meter = SumLengde(alle_segmenter, 1, TRUE)
        /\ \A k \in 1..Len(alle_segmenter) :
               alle_segmenter[k].lengde =
                   beregn_linje_lengde(alle_segmenter[k].geometry)
        /\ IF total_lengde_meter > 0
           THEN FracEq(stats.discovery_prosent,
                       besokt_lengde_meter * 100, total_lengde_meter)
           ELSE stats.discovery_prosent[1] = 0 /\ stats.discovery_prosent[2] # 0
        /\ FracEq(stats.total_km, total_lengde_meter, 1000)
        /\ FracEq(stats.besokt_km, besokt_lengde_meter, 1000)

\* a finished run with visited and unvisited segments of positive length
C2_Witness ==
    /\ pc = "done"
    /\ 0 < besokt_lengde_meter
    /\ besokt_lengde_meter < total_lengde_meter
    /\ \E j, k \in 1..Len(alle_segmenter) :
           alle_segmenter[j].besokt /\ ~alle_segmenter[k].besokt

\* the point is strictly inside the buffer of radius BufferMeter / 111000
\* degrees around the line: nearer to it than BufferMeter / MeterPerTick ticks
StrictlyInside(pt, coords) ==
    LineDist2(pt, coords, 1) * MeterPerTick * MeterPerTick
        < BufferMeter * BufferMeter

\* the point is exactly on the boundary of that buffer
OnBoundary(pt, coords) ==
    LineDist2(pt, coords, 1) * MeterPerTick * MeterPerTick
        = BufferMeter * BufferMeter

\* C3: a segment is classified visited if and only if at least one position
\* of the track lies strictly inside the buffer of radius buffer_meter /
\* 111000 degrees around it; a position exactly on the boundary does not
\* count, and with an empty track the segment is not visited.
C3_VisitedIffInside ==
    \A k \in 1..Len(alle_segmenter) :
        alle_segmenter[k].besokt <=>
            \E j \in 1..Len(gpx_punkter) :
                StrictlyInside(gpx_punkter[j], alle_segmenter[k].geometry)

\* a finished run in which one segment is visited and another is not, though
\* a track position lies exactly on the boundary of its buffer
C3_Witness ==
    /\ pc = "done"
    /\ \E k \in 1..Len(alle_segmenter) : alle_segmenter[k].besokt
    /\ \E k \in 1..Len(alle_segmenter) :
           /\ ~alle_segmenter[k].besokt
           /\ \E j \in 1..Len(gpx_punkter) :
                  OnBoundary(gpx_punkter[j], alle_segmenter[k].geometry)

\* <<trail, slice>> a before <<trail, slice>> b
FraBefore(a, b) == a[1] < b[1] \/ (a[1] = b[1] /\ a[2] < b[2])

\* C5: the segment list is ordered by trail in input order and, within a
\* trail, by increasing slice index; no segment of a later trail precedes one
\* of an earlier trail; every segment carries the properties of the trail it
\* was cut from and is the slice of that trail at its index.
C5_SegmentOrder ==
    /\ \A j, k \in 1..Len(alle_segmenter) :
           j < k => FraBefore(alle_segmenter[j].fra, alle_segmenter[k].fra)
    /\ \A k \in 1..Len(alle_segmenter) :
           LET s == alle_segmenter[k]
               f == features[s.fra[1]]
           IN  /\ s.properties = f.properties
               /\ s.geometry =
                      substring(f.coords, s.fra[2], s.fra[2] + 1,
                                AntallSegmenter(f.coords, SegmentLengde)).coords
    /\ pc = "done" =>
           \A t \in 1..Len(features) :
               Cardinality({ k \in 1..Len(alle_segmenter) :
                                 alle_segmenter[k].fra[1] = t })
                   = Len(segmenter_loype(features[t].coords, SegmentLengde))

\* a finished run over two different trails of several segments each
C5_Witness ==
    /\ pc = "done"
    /\ Len(features) = 2
    /\ features[1].properties # features[2].properties
    /\ \E j, k \in 1..Len(alle_segmenter) :
           /\ alle_segmenter[j].fra[1] = 1 /\ alle_segmenter[j].fra[2] >= 1
           /\ alle_segmenter[k].fra[1] = 2 /\ alle_segmenter[k].fra[2] >= 1

\* the trails of the network with fewer than 2 positions
Degenerate ==
    { t \in 1..Len(features) :
          features[t].har_geometry /\ Len(features[t].coords) < 2 }

\* C6 as claimed: a trail with fewer than 2 positions contributes no segment
\* and no length, and the run is not aborted by it: every other trail is
\* processed and the statistics are returned.
C6_DegenerateTrailAbsorbed ==
    /\ pc = "raised" => fi \notin Degenerate
    /\ \A k \in 1..Len(alle_segmenter) :
           alle_segmenter[k].fra[1] \notin Degenerate
    /\ pc = "done" =>
           \A t \in 1..Len(features) :
               t \notin Degenerate =>
                   \E k \in 1..Len(alle_segmenter) :
                       alle_segmenter[k].fra[1] = t

\* the track with position p put in before index j (j = Len + 1: at the end)
InsertAt(gpx, j, p) ==
    SubSeq(gpx, 1, j - 1) \o <<p>> \o SubSeq(gpx, j, Len(gpx))

\* fraction f is at most fraction g (denominators positive)
FracLeq(f, g) == f[1] * g[2] <= g[1] * f[2]

\* the positions a track is extended by: the free ones and one far away
NyePunkter == Punkter \cup { <<10, 0>>, <<90, 90>> }

\* C7: adding any position to the track, anywhere in it, never decreases the
\* discovery ratio and never turns a visited segment into an unvisited one.
C7_Monotone ==
    pc = "done" =>
        \A p \in NyePunkter : \A j \in 1..(Len(gpx_punkter) + 1) :
            LET r == prosesser_loyper(features, InsertAt(gpx_punkter, j, p))
            IN  /\ ~r.raised
                /\ Len(r.segmenter) = Len(alle_segmenter)
                /\ FracLeq(stats.discovery_prosent, r.stats.discovery_prosent)
                /\ \A k \in 1..Len(alle_segmenter) :
                       /\ r.segmenter[k].geometry = alle_segmenter[k].geometry
                       /\ alle_segmenter[k].besokt => r.segmenter[k].besokt

\* a finished run with a visited segment that stays visited, and an unvisited
\* one that an added position turns visited, raising the ratio
C7_Witness ==
    /\ pc = "done"
    /\ Len(gpx_punkter) >= 1
    /\ \E k \in 1..Len(alle_segmenter) : alle_segmenter[k].besokt
    /\ \E p \in NyePunkter :
           LET r == prosesser_loyper(features, Append(gpx_punkter, p))
           IN  /\ \E k \in 1..Len(alle_segmenter) :
                      ~alle_segmenter[k].besokt /\ r.segmenter[k].besokt
               /\ ~FracLeq(r.stats.discovery_prosent, stats.discovery_prosent)

\* every vertex of every trail is a position of the track
AlleHjornerISpor ==
    \A t \in 1..Len(features) : \A v \in 1..Len(features[t].coords) :
        \E j \in 1..Len(gpx_punkter) : gpx_punkter[j] = features[t].coords[v]

\* consecutive vertices of every trail are at most a buffer radius apart
TetteHjorner ==
    \A t \in 1..Len(features) : \A v \in 1..(Len(features[t].coords) - 1) :
        EdgeLength(features[t].coords[v], features[t].coords[v + 1])
            * MeterPerTick <= BufferMeter

\* every trail has positive length
PositivLengde ==
    \A t \in 1..Len(features) : beregn_linje_lengde(features[t].coords) > 0

\* C8 as claimed: a trail (of positive length) overlapped by a track that
\* holds every vertex of it gives discovery_prosent = 100, whatever the
\* spacing of its vertices.
C8_FullTrackIs100 ==
    (pc = "done" /\ Len(features) >= 1 /\ PositivLengde /\ AlleHjornerISpor)
        => FracEq(stats.discovery_prosent, 100, 1)

\* C8, amended: a trail of positive length whose consecutive vertices are no
\* farther apart than the buffer radius (buffer_meter / 111000 degrees),
\* overlapped by a track that holds every vertex of it, gives
\* discovery_prosent = 100: every segment of it is classified visited.
C8_DenseTrackIs100 ==
    (pc = "done" /\ Len(features) >= 1 /\ PositivLengde /\ AlleHjornerISpor
        /\ TetteHjorner)
        => /\ FracEq(stats.discovery_prosent, 100, 1)
           /\ \A k \in 1..Len(alle_segmenter) : alle_segmenter[k].besokt

\* a finished run over a trail of several segments with close vertices, all
\* of them in the track
C8_Witness ==
    /\ pc = "done"
    /\ Len(features) >= 1
    /\ PositivLengde /\ AlleHjornerISpor /\ TetteHjorner
    /\ Len(alle_segmenter) >= 2
    /\ FracEq(stats.discovery_prosent, 100, 1)

RECURSIVE AntallSlices(_, _)
\* the number of slices segmenter_løype cuts the trails fs[k..] into
AntallSlices(fs, k) ==
    IF k > Len(fs) THEN 0
    ELSE Len(segmenter_loype(fs[k].coords, SegmentLengde))
         + AntallSlices(fs, k + 1)

\* C9: with an empty track every segment of every trail is classified
\* unvisited, visited_length stays 0 and discovery_prosent is 0, while all
\* segments are produced and total_length is the sum of their lengths.
C9_EmptyTrack ==
    (gpx_punkter = << >> /\ pc # "start") =>
        /\ \A k \in 1..Len(alle_segmenter) : ~alle_segmenter[k].besokt
        /\ besokt_lengde_meter = 0
        /\ pc = "done" =>
               /\ stats.discovery_prosent[1] = 0
               /\ stats.discovery_prosent[2] # 0
               /\ stats.besokt_km[1] = 0
               /\ Len(alle_segmenter) = AntallSlices(features, 1)
               /\ total_lengde_meter = SumLengde(alle_segmenter, 1, FALSE)

\* a finished run with an empty track over trails of positive length
C9_Witness ==
    /\ pc = "done"
    /\ gpx_punkter = << >>
    /\ Len(alle_segmenter) >= 2
    /\ total_lengde_meter > 0

\* C10: with an empty network the run returns an empty segment list,
\* total_length 0 and discovery_prosent 0 for every track, and no division
\* by zero is raised.
C10_EmptyNetwork ==
    (features = << >> /\ pc # "start") =>
        /\ pc # "raised"
        /\ alle_segmenter = << >>
        /\ total_lengde_meter = 0
        /\ pc = "done" =>
               /\ stats.discovery_prosent[1] = 0
               /\ stats.discovery_prosent[2] # 0
               /\ stats.total_km[1] = 0

\* a finished run with an empty network and a track that is not empty
C10_Witness ==
    /\ pc = "done"
    /\ features = << >>
    /\ Len(gpx_punkter) >= 1
    /\ alle_segmenter = << >>


(***************************************************************************)
(* substring called on its own, inside the try block of segmenter_løype,   *)
(* with any fractions start_num/den and end_num/den.                       *)
(***************************************************************************)
MaxNevner == 2

SubstringKall ==
    /\ pc = "start"
    /\ \E l \in LineStrings, den \in 1..MaxNevner :
         \E start_num \in -(den + 1)..(den + 1),
            end_num \in -(den + 1)..(den + 1) :
           /\ linestring' = l
           /\ antall_segmenter' = den
           /\ requests' = <<<<start_num, end_num, den>>>>
           /\ segmenter' =
                  LET r == substring(l, start_num, end_num, den)
                  IN  IF r.raised THEN << >>
                      ELSE <<[coords |-> r.coords, idx |-> 0]>>
    /\ i' = 0
    /\ pc' = "substring"
    /\ UNCHANGED <<buffer_meter, besokt_retur, forrige, merge>>
    /\ UNCHANGED <<features, gpx_punkter, segment_lengde, fi, si,
                   alle_segmenter, total_lengde_meter, besokt_lengde_meter,
                   stats>>

NextSubstring ==
    \/ SubstringKall

SpecSubstring == Init /\ [][NextSubstring]_vars

\* the fractions of a request are invalid: the end before the start, or one
\* of them outside [0, 1]
Ugyldig(req) ==
    \/ req[2] < req[1]
    \/ req[1] < 0 \/ req[1] > req[3]
    \/ req[2] < 0 \/ req[2] > req[3]

SliceFails(coords, k, antall) == substring(coords, k, k + 1, antall).raised

\* how many slices of the list were cut at index k
AntallIdx(segs, k) == Cardinality({ j \in 1..Len(segs) : segs[j].idx = k })

\* how many segments of the list come from slice k of trail t
AntallFra(alle, t, k) ==
    Cardinality({ j \in 1..Len(alle) : alle[j].fra = <<t, k>> })

\* the trails the outer loop has finished
Ferdige ==
    IF pc = "done" THEN 1..Len(features)
    ELSE IF pc \in {"loyper", "slices", "segmenter"}
         THEN 1..Min(fi - 1, Len(features))
    ELSE {}

\* C12: when the extraction of a slice fails inside segmenter_løype only
\* that slice is missing: every slice asked for so far is in the list exactly
\* once if it did not fail and not at all if it did, in increasing index
\* order; the same holds of the finished trails in the result list; the run
\* is only ever aborted at a trail whose line cannot be built, never by a
\* slice; and the totals are the sums over the segments in the list, so a
\* dropped slice adds nothing to them.
C12_FailedSliceDropped ==
    /\ pc \in {"slices", "segmenter"} =>
           /\ \A r \in 1..Len(requests) :
                  LET k == requests[r][1]
                  IN  AntallIdx(segmenter, k) =
                          IF SliceFails(linestring, k, antall_segmenter)
                          THEN 0 ELSE 1
           /\ \A a, b \in 1..Len(segmenter) :
                  a < b => segmenter[a].idx < segmenter[b].idx
    /\ \A t \in Ferdige :
           LET n == AntallSegmenter(features[t].coords, SegmentLengde)
           IN  \A k \in 0..(n - 1) :
                   AntallFra(alle_segmenter, t, k) =
                       IF SliceFails(features[t].coords, k, n)
                       THEN 0 ELSE 1
    /\ pc = "raised" =>
           /\ fi <= Len(features)
           /\ LesFeil(features[fi])
    /\ total_lengde_meter = SumLengde(alle_segmenter, 1, FALSE)
    /\ besokt_lengde_meter = SumLengde(alle_segmenter, 1, TRUE)

\* a finished run whose first trail lost its only slice and whose second
\* trail gave all of its slices
C12_Witness ==
    /\ pc = "done"
    /\ Len(features) = 2
    /\ SliceFails(features[1].coords, 0, 1)
    /\ Len(alle_segmenter) >= 2
    /\ \A k \in 1..Len(alle_segmenter) : alle_segmenter[k].fra[1] = 2
    /\ total_lengde_meter > 0


\* C13 as stated: the only thing that halts a whole call is a trail record
\* of invalid shape, one without a geometry; a call that stops has met such
\* a record.
C13_OnlyShapeHalts ==
    pc = "raised" =>
        /\ fi <= Len(features)
        /\ ~features[fi].har_geometry


(***************************************************************************)
(* prosesser_løyper called a second time with the arguments of the first   *)
(* call, in the same process.                                              *)
(***************************************************************************)
\* mutant: the accumulators of the call before are carried on
NyeAkkumulatorer_Beholder(alle, total, besokt) ==
    [alle |-> alle, total |-> total, besokt |-> besokt]

\* alle_segmenter = []; total_lengde_meter = 0; besøkt_lengde_meter = 0: the
\* accumulators are locals of the call, whatever the call before left
NyeAkkumulatorer(alle, total, besokt) ==
    [alle |-> << >>, total |-> 0, besokt |-> 0]

\* the first call has returned or raised; its outcome is kept aside and the
\* function is entered again with the same features and track
KallIgjen ==
    /\ pc \in {"done", "raised"}
    /\ forrige.kall = 0
    /\ forrige' = [kall |-> 1, raised |-> pc = "raised",
                   segmenter |-> alle_segmenter, stats |-> stats]
    /\ LET acc == NyeAkkumulatorer(alle_segmenter, total_lengde_meter,
                                   besokt_lengde_meter)
       IN  /\ alle_segmenter' = acc.alle
           /\ total_lengde_meter' = acc.total
           /\ besokt_lengde_meter' = acc.besokt
    /\ fi' = 1
    /\ pc' = "loyper"
    /\ UNCHANGED <<buffer_meter, besokt_retur, merge>>
    /\ UNCHANGED <<features, gpx_punkter, segment_lengde, linestring,
                   antall_segmenter, i, requests, segmenter, si, stats>>

NextIgjen ==
    \/ Les
    \/ NesteLoype
    \/ Slice
    \/ SegmenterRetur
    \/ ProsesserSegment
    \/ LoypeFerdig
    \/ Ferdig
    \/ KallIgjen

SpecIgjen == Init /\ [][NextIgjen]_vars

\* C14: a second call with the same trails, track and parameters ends as
\* the first did, and when it returns, its statistics and its segment list
\* with every classification are those of the first call; nothing the first
\* call left behind enters the second.
C14_SecondCallSame ==
    (forrige.kall = 1 /\ pc \in {"done", "raised"}) =>
        /\ (pc = "raised") = forrige.raised
        /\ pc = "done" =>
               /\ stats = forrige.stats
               /\ alle_segmenter = forrige.segmenter

\* a second call has returned segments of both classifications
C14_Witness ==
    /\ forrige.kall = 1
    /\ pc = "done"
    /\ \E j, k \in 1..Len(alle_segmenter) :
           alle_segmenter[j].besokt /\ ~alle_segmenter[k].besokt


\* the last position of a slice
Siste(coords) == coords[Len(coords)]

RECURSIVE SumSlices(_, _, _)
\* the lengths of the slices from k on, added up: haversine metres, or the
\* planar length the fractions are taken of
SumSlices(segs, k, meter) ==
    IF k > Len(segs) THEN 0
    ELSE (IF meter THEN beregn_linje_lengde(segs[k].coords)
          ELSE geom_length(segs[k].coords))
         + SumSlices(segs, k + 1, meter)

RECURSIVE Skjot(_, _)
\* the slices from k on joined end to start, each shared end taken once
Skjot(segs, k) ==
    IF k > Len(segs) THEN << >>
    ELSE IF k = Len(segs) THEN segs[k].coords
    ELSE SubSeq(segs[k].coords, 1, Len(segs[k].coords) - 1)
         \o Skjot(segs, k + 1)

\* the positions of the list with those at the indices of the set left out
RECURSIVE Uten(_, _, _)
Uten(coords, k, skip) ==
    IF k > Len(coords) THEN << >>
    ELSE (IF k \in skip THEN << >> ELSE <<coords[k]>>)
         \o Uten(coords, k + 1, skip)

\* C16: for a line of at least 2 positions and any target length the slices
\* returned are as many as counted, slice k starts at fraction k/count of
\* the line, slice 0 at its first position, each slice ends where the next
\* starts and the last ends at the line's last position; joined end to
\* start they pass through every vertex of the line in order and through
\* nothing but the cut points besides; so their lengths add up to the
\* length of the line, in metres as in planar length.
C16_SlicesCoverLine ==
    (pc = "segmenter" /\ Len(linestring) >= 2) =>
        LET n == antall_segmenter
            L == geom_length(linestring)
            joined == Skjot(segmenter, 1)
        IN  /\ Len(segmenter) = n
            /\ \A k \in 1..n :
                   /\ segmenter[k].idx = k - 1
                   /\ Len(segmenter[k].coords) >= 2
                   /\ segmenter[k].coords[1] =
                          interpolate(linestring, ((k - 1) * L) \div n)
            /\ segmenter[1].coords[1] = linestring[1]
            /\ \A k \in 1..(n - 1) :
                   Siste(segmenter[k].coords) = segmenter[k + 1].coords[1]
            /\ Siste(segmenter[n].coords) = Siste(linestring)
            /\ \E skip \in SUBSET (2..(Len(joined) - 1)) :
                   /\ Cardinality(skip) <= n - 1
                   /\ Uten(joined, 1, skip) = linestring
            /\ SumSlices(segmenter, 1, FALSE) = L
            /\ SumSlices(segmenter, 1, TRUE) = beregn_linje_lengde(linestring)

\* a line with inner vertices cut into several slices, one cut inside an
\* edge
C16_Witness ==
    /\ pc = "segmenter"
    /\ Len(linestring) >= 3
    /\ Len(segmenter) >= 3
    /\ \E k \in 1..Len(segmenter) :
           \A v \in 1..Len(linestring) :
               segmenter[k].coords[1] # linestring[v]


(***************************************************************************)
(* sjekk_segment_besøkt called on its own, with any segment, track and     *)
(* buffer.                                                                 *)
(***************************************************************************)
\* the segments segmenter_løype cuts of the catalogue's lines
Segmenter ==
    UNION { { segmenter_loype(l, SegmentLengde)[k].coords :
                  k \in 1..Len(segmenter_loype(l, SegmentLengde)) } :
            l \in LineStrings }

\* buffer radii of a direct call, in metres
Buffere == { 0, BufferMeter }

SjekkKall ==
    /\ pc = "start"
    /\ \E seg \in Segmenter, g \in SeqUpTo(NyePunkter, MaxTrack),
          b \in Buffere :
           /\ linestring' = seg
           /\ gpx_punkter' = g
           /\ buffer_meter' = b
           /\ besokt_retur' = sjekk_segment_besokt(seg, g, b)
    /\ pc' = "sjekket"
    /\ UNCHANGED <<forrige, merge>>
    /\ UNCHANGED <<features, segment_lengde, fi, antall_segmenter, i,
                   requests, segmenter, si, alle_segmenter,
                   total_lengde_meter, besokt_lengde_meter, stats>>

NextBesokt ==
    \/ SjekkKall

SpecBesokt == Init /\ [][NextBesokt]_vars

\* the position is one of the segment's vertices
ErHjorne(pt, coords) == \E v \in 1..Len(coords) : coords[v] = pt

\* C17: with a buffer of 0 metres a segment is classified unvisited for
\* every track none of whose positions coincides with a vertex of the
\* segment, wherever else the positions lie, on the segment or off it.
C17_ZeroBufferUnvisited ==
    (pc = "sjekket" /\ buffer_meter = 0
       /\ \A k \in 1..Len(gpx_punkter) : ~ErHjorne(gpx_punkter[k], linestring))
        => ~besokt_retur

\* a call with buffer 0 and a track position on the segment between two of
\* its vertices
C17_Witness ==
    /\ pc = "sjekket"
    /\ buffer_meter = 0
    /\ ~besokt_retur
    /\ \E k \in 1..Len(gpx_punkter) :
           /\ ~ErHjorne(gpx_punkter[k], linestring)
           /\ LineDist2(gpx_punkter[k], linestring, 1) = 0


\* C18: at every step of the matching loop and at its end the visited
\* length is at least 0 and at most the total length, every segment length
\* being non-negative and every length added to the visited length added to
\* the total too; so the discovery_prosent returned lies between 0 and 100.
C18_VisitedWithinTotal ==
    /\ 0 <= besokt_lengde_meter
    /\ besokt_lengde_meter <= total_lengde_meter
    /\ \A k \in 1..Len(alle_segmenter) : alle_segmenter[k].lengde >= 0
    /\ pc = "done" =>
           /\ stats.discovery_prosent[2] > 0
           /\ stats.discovery_prosent[1] >= 0
           /\ FracLeq(stats.discovery_prosent, <<Prosent, 1>>)

\* inside the loop over a trail's segments, after a visited and an
\* unvisited segment of positive length
C18_Witness ==
    /\ pc = "segmenter"
    /\ si > 1
    /\ si <= Len(segmenter)
    /\ 0 < besokt_lengde_meter
    /\ besokt_lengde_meter < total_lengde_meter


(***************************************************************************)
(* hent_skiløyper_osm.main: the fetched trails are merged into the stored  *)
(* collection and the result is stored; then main is run once more on the  *)
(* same fetched data.                                                      *)
(***************************************************************************)
MaxLagret == 2
MaxHentet == 2

\* properties.get('osm_id') of a feature that has none
IngenId == "None"

\* features of the stored file: any osm_id, or none
LagredeFeatures ==
    { [osm_id |-> id, kilde |-> "lagret"] : id \in {IngenId, "w1", "w2"} }

\* features osm_til_geojson builds: every one has the id of its way
HentedeFeatures ==
    { [osm_id |-> id, kilde |-> "hentet"] : id \in {"w1", "w2", "w3"} }

\* the locals main starts the merge with, for a stored and a fetched list
MergeStart(lagret, hentet, runde) ==
    [pc |-> IF lagret # << >> THEN "bygg" ELSE "ny",
     features |-> lagret, new_features |-> hentet,
     existing_ids |-> {}, new_count |-> 0, duplicate_count |-> 0,
     k |-> 1, lagret |-> lagret, runde |-> runde]

\* existing_data is loaded and new_data fetched; "if existing_data and
\* existing_data.get('features')" chooses the branch
LastInn ==
    /\ merge.pc = "start"
    /\ \E lagret \in SeqUpTo(LagredeFeatures, MaxLagret),
          hentet \in SeqUpTo(HentedeFeatures, MaxHentet) :
           merge' = MergeStart(lagret, hentet, 0)
    /\ UNCHANGED <<pc, features, gpx_punkter, segment_lengde, fi, linestring,
                   antall_segmenter, i, requests, segmenter, si,
                   alle_segmenter, total_lengde_meter, besokt_lengde_meter,
                   stats, buffer_meter, besokt_retur, forrige>>

\* for feature in existing_data['features']: if osm_id: existing_ids.add
ByggIder ==
    /\ merge.pc = "bygg"
    /\ merge.k <= Len(merge.features)
    /\ LET osm_id == merge.features[merge.k].osm_id
       IN  merge' = [merge EXCEPT
                        !.existing_ids = IF osm_id # IngenId
                                         THEN @ \cup {osm_id} ELSE @,
                        !.k = @ + 1]
    /\ UNCHANGED <<pc, features, gpx_punkter, segment_lengde, fi, linestring,
                   antall_segmenter, i, requests, segmenter, si,
                   alle_segmenter, total_lengde_meter, besokt_lengde_meter,
                   stats, buffer_meter, besokt_retur, forrige>>

\* new_count = 0; duplicate_count = 0
IderBygd ==
    /\ merge.pc = "bygg"
    /\ merge.k > Len(merge.features)
    /\ merge' = [merge EXCEPT !.pc = "legg", !.k = 1, !.new_count = 0,
                              !.duplicate_count = 0]
    /\ UNCHANGED <<pc, features, gpx_punkter, segment_lengde, fi, linestring,
                   antall_segmenter, i, requests, segmenter, si,
                   alle_segmenter, total_lengde_meter, besokt_lengde_meter,
                   stats, buffer_meter, besokt_retur, forrige>>

\* mutant: the id of an appended feature is not remembered
NyeIder_Uendret(ids, osm_id) == ids

\* existing_ids.add(osm_id)
NyeIder(ids, osm_id) == ids \cup {osm_id}

\* the body of "for feature in new_data['features']"
MergeSteg(m) ==
    LET feature == m.new_features[m.k]
        osm_id == feature.osm_id
    IN  IF osm_id \notin m.existing_ids
        THEN [m EXCEPT !.features = Append(@, feature),
                       !.existing_ids = NyeIder(@, osm_id),
                       !.new_count = @ + 1,
                       !.k = @ + 1]
        ELSE [m EXCEPT !.duplicate_count = @ + 1,
                       !.k = @ + 1]

LeggTilNye ==
    /\ merge.pc = "legg"
    /\ merge.k <= Len(merge.new_features)
    /\ merge' = MergeSteg(merge)
    /\ UNCHANGED <<pc, features, gpx_punkter, segment_lengde, fi, linestring,
                   antall_segmenter, i, requests, segmenter, si,
                   alle_segmenter, total_lengde_meter, besokt_lengde_meter,
                   stats, buffer_meter, besokt_retur, forrige>>

\* merged_data = existing_data; json.dump(merged_data, f)
MergeFerdig ==
    /\ merge.pc = "legg"
    /\ merge.k > Len(merge.new_features)
    /\ merge' = [merge EXCEPT !.pc = "lagret"]
    /\ UNCHANGED <<pc, features, gpx_punkter, segment_lengde, fi, linestring,
                   antall_segmenter, i, requests, segmenter, si,
                   alle_segmenter, total_lengde_meter, besokt_lengde_meter,
                   stats, buffer_meter, besokt_retur, forrige>>

\* else: merged_data = new_data; json.dump(merged_data, f)
OpprettNy ==
    /\ merge.pc = "ny"
    /\ merge' = [merge EXCEPT !.pc = "lagret", !.features = merge.new_features]
    /\ UNCHANGED <<pc, features, gpx_punkter, segment_lengde, fi, linestring,
                   antall_segmenter, i, requests, segmenter, si,
                   alle_segmenter, total_lengde_meter, besokt_lengde_meter,
                   stats, buffer_meter, besokt_retur, forrige>>

\* main is run again: the file just written is loaded, the same data fetched
MergeIgjen ==
    /\ merge.pc = "lagret"
    /\ merge.runde = 0
    /\ merge' = MergeStart(merge.features, merge.new_features, 1)
    /\ UNCHANGED <<pc, features, gpx_punkter, segment_lengde, fi, linestring,
                   antall_segmenter, i, requests, segmenter, si,
                   alle_segmenter, total_lengde_meter, besokt_lengde_meter,
                   stats, buffer_meter, besokt_retur, forrige>>

NextMerge ==
    \/ LastInn
    \/ ByggIder
    \/ IderBygd
    \/ LeggTilNye
    \/ MergeFerdig
    \/ OpprettNy
    \/ MergeIgjen

SpecMerge == Init /\ [][NextMerge]_vars

\* the osm_ids of the first n features of a list
Ider(list, n) == { list[j].osm_id : j \in 1..n }

RECURSIVE ForventetTillegg(_, _, _)
\* the fetched features from k on whose osm_id is not among those seen, the
\* ones stored and the ones fetched before it
ForventetTillegg(hentet, k, sett) ==
    IF k > Len(hentet) THEN << >>
    ELSE (IF hentet[k].osm_id \in sett THEN << >> ELSE <<hentet[k]>>)
         \o ForventetTillegg(hentet, k + 1, sett \cup {hentet[k].osm_id})

\* C19: when fetched trails are merged into a stored collection, the stored
\* features stay as they were and where they were; a fetched feature is
\* appended exactly when its osm_id is neither among the stored features
\* nor among the features appended before it in the same merge;
\* new_count + duplicate_count is the number of fetched features looked at;
\* no osm_id is added twice; and merging the same fetched data once more
\* appends nothing.
C19_MergeDeduplicates ==
    LET m == merge
        n == Len(m.lagret)
        tillegg == SubSeq(m.features, n + 1, Len(m.features))
    IN  /\ (m.pc \in {"bygg", "legg", "lagret"} /\ m.lagret # << >>) =>
               /\ Len(m.features) >= n
               /\ SubSeq(m.features, 1, n) = m.lagret
               /\ m.pc = "legg" =>
                      /\ m.new_count + m.duplicate_count = m.k - 1
                      /\ m.new_count = Len(tillegg)
               /\ m.pc = "lagret" =>
                      /\ tillegg = ForventetTillegg(m.new_features, 1,
                                                    Ider(m.lagret, n))
                      /\ m.new_count + m.duplicate_count = Len(m.new_features)
                      /\ m.new_count = Len(tillegg)
                      /\ \A a, b \in 1..Len(tillegg) :
                             a # b => tillegg[a].osm_id # tillegg[b].osm_id
                      /\ \A a \in 1..Len(tillegg) :
                             tillegg[a].osm_id \notin Ider(m.lagret, n)
        /\ (m.pc = "lagret" /\ m.runde = 1) =>
               /\ m.features = m.lagret
               /\ m.new_count = 0

\* a second merge of the same data has found only duplicates, after a first
\* merge that kept stored features and appended fetched ones
C19_Witness ==
    /\ merge.pc = "lagret"
    /\ merge.runde = 1
    /\ Len(merge.new_features) >= 2
    /\ merge.duplicate_count = Len(merge.new_features)
    /\ \E a, b \in 1..Len(merge.lagret) :
           /\ a < b
           /\ merge.lagret[a].kilde = "lagret"
           /\ merge.lagret[b].kilde = "hentet"

====
